---------------------------- MODULE Spec2Model ----------------------------
(***************************************************************************)
(* A model of redact.py: the PII redaction pipeline for PDF documents.     *)
(*                                                                         *)
(* Python strings are TLA+ strings; a character is a string of length 1    *)
(* (SubSeq(s, i, i)).  Python's 0-based half-open indices [lo, hi) are     *)
(* kept in the definitions that take indices from the code; At and Slice   *)
(* do the conversion to TLA+'s 1-based sequences.                          *)
(***************************************************************************)
EXTENDS Integers, Sequences, FiniteSets, TLC

(***************************************************************************)
(* Python str primitives                                                   *)
(***************************************************************************)

\* s[i] for a 0-based index i
At(s, i) == SubSeq(s, i + 1, i + 1)

\* s[lo:hi] for 0 <= lo, hi <= len(s)
Slice(s, lo, hi) == IF hi <= lo THEN "" ELSE SubSeq(s, lo + 1, hi)

UpperLetters == "ABCDEFGHIJKLMNOPQRSTUVWXYZ"

LowerLetters == "abcdefghijklmnopqrstuvwxyz"

\* the upper-case letters, as a set of characters
UpperChars == {At(UpperLetters, k) : k \in 0..25}

\* upper-case letter -> its lower-case letter
LowerOf ==
    [c \in UpperChars |->
        At(LowerLetters, CHOOSE k \in 0..25 : At(UpperLetters, k) = c)]

\* str.lower() on one character (ASCII letters)
LowerChar(c) == IF c \in UpperChars THEN LowerOf[c] ELSE c

RECURSIVE LowerFrom(_, _)
\* s[i:].lower()
LowerFrom(s, i) ==
    IF i >= Len(s) THEN "" ELSE LowerChar(At(s, i)) \o LowerFrom(s, i + 1)

\* str.lower()
StrLower(s) == LowerFrom(s, 0)

RECURSIVE RemoveFrom(_, _, _)
\* s[i:].replace(c, "")
RemoveFrom(s, c, i) ==
    IF i >= Len(s) THEN ""
    ELSE (IF At(s, i) = c THEN "" ELSE At(s, i)) \o RemoveFrom(s, c, i + 1)

\* str.replace(c, "") for a one-character c
RemoveChar(s, c) == RemoveFrom(s, c, 0)

\* the characters str.split() and str.strip() treat as whitespace
Whitespace == {" ", "\n", "\t"}

IsSpace(c) == c \in Whitespace

RECURSIVE LStrip(_)
LStrip(s) ==
    IF s # "" /\ IsSpace(At(s, 0)) THEN LStrip(Slice(s, 1, Len(s))) ELSE s

RECURSIVE RStrip(_)
RStrip(s) ==
    IF s # "" /\ IsSpace(At(s, Len(s) - 1)) THEN RStrip(Slice(s, 0, Len(s) - 1)) ELSE s

\* str.strip()
Strip(s) == RStrip(LStrip(s))

RECURSIVE SplitFrom(_, _, _)
\* the words of s[i:], cur being the word under construction
SplitFrom(s, i, cur) ==
    IF i >= Len(s) THEN (IF cur = "" THEN <<>> ELSE <<cur>>)
    ELSE IF IsSpace(At(s, i))
         THEN (IF cur = "" THEN <<>> ELSE <<cur>>) \o SplitFrom(s, i + 1, "")
         ELSE SplitFrom(s, i + 1, cur \o At(s, i))

\* str.split(): the maximal runs of non-whitespace characters
Split(s) == SplitFrom(s, 0, "")

RECURSIVE SplitOnFrom(_, _, _, _)
SplitOnFrom(s, sep, i, cur) ==
    IF i >= Len(s) THEN <<cur>>
    ELSE IF At(s, i) = sep
         THEN <<cur>> \o SplitOnFrom(s, sep, i + 1, "")
         ELSE SplitOnFrom(s, sep, i + 1, cur \o At(s, i))

\* str.split(sep) for a one-character sep: empty fields are kept
SplitOn(s, sep) == SplitOnFrom(s, sep, 0, "")

RECURSIVE JoinSpace(_)
\* " ".join(ws)
JoinSpace(ws) ==
    IF ws = <<>> THEN ""
    ELSE IF Len(ws) = 1 THEN ws[1]
    ELSE ws[1] \o " " \o JoinSpace(Tail(ws))

\* tech_term in s, for strings
Contains(s, sub) ==
    \E i \in 0..(Len(s) - Len(sub)) : Slice(s, i, i + Len(sub)) = sub

Range(f) == {f[i] : i \in DOMAIN f}

(***************************************************************************)
(* redact.py: constants and pure functions                                 *)
(***************************************************************************)

DEFAULT_IGNORE_TERMS == {
    "git", "github", "gitlab", "bitbucket",
    "python", "java", "javascript", "typescript", "c++", "c#", "ruby", "go", "rust", "php", "perl",
    "react", "angular", "vue", "svelte", "jquery", "node", "nodejs", "express",
    "django", "flask", "spring", "rails", "laravel", "symfony",
    "aws", "azure", "gcp", "cloud", "docker", "kubernetes", "terraform",
    "sql", "mysql", "postgresql", "mongodb", "oracle", "redis", "cassandra",
    "linux", "unix", "windows", "macos", "ubuntu", "debian", "fedora", "centos",
    "agile", "scrum", "kanban", "jira", "confluence", "trello",
    "jenkins", "circleci", "travis", "github actions", "gitlab ci", "bitbucket pipelines",
    "selenium", "cypress", "jest", "mocha", "chai", "jasmine", "pytest", "unittest",
    "docker-compose", "vagrant", "ansible", "puppet", "chef",
    "elasticsearch", "logstash", "kibana", "grafana", "prometheus",
    "mongodb", "cassandra", "hadoop", "spark", "flink",
    "redis", "memcached", "rabbitmq", "kafka", "active directory",
    "oauth", "openid", "jwt", "saml", "ldap",
    "rest", "soap", "graphql", "websocket", "http", "https",
    "tcp", "udp", "ip", "dns", "dhcp",
    "ssl", "tls", "ssh", "ftp", "sftp", "scp",
    "http2", "http3", "quic", "websocket",
    "json", "xml", "yaml", "csv", "protobuf",
    "html", "css", "scss", "less", "sass",
    "bootstrap", "tailwind", "materialize", "foundation",
    "webpack", "gulp", "grunt", "parcel", "vite",
    "babel", "typescript", "eslint", "prettier",
    "ASCII", "UTF-8", "ISO-8859-1", "UTF-16", "UTF-32",
    "ASP.NET", "PHP", "Ruby on Rails", "Django", "Flask",
    "Spring", "Laravel", "Symfony", "Express",
    "ASP.NET", "asp.net", ".net", ".NET", "dotnet", "asp" }

\* text.lower().replace(".", "").replace("-", "").replace(" ", "")
normalize_text(text) ==
    RemoveChar(RemoveChar(RemoveChar(StrLower(text), "."), "-"), " ")

\* {normalize_text(term) for term in DEFAULT_IGNORE_TERMS}, evaluated once
DefaultNormalizedTerms == {normalize_text(term) : term \in DEFAULT_IGNORE_TERMS}

\* {normalize_text(term) for term in ignore_terms}; the normal forms of the
\* default terms are taken from DefaultNormalizedTerms when the set holds them all
NormalizedTerms(ignore_terms) ==
    IF DEFAULT_IGNORE_TERMS \subseteq ignore_terms
    THEN DefaultNormalizedTerms
         \cup {normalize_text(term) : term \in ignore_terms \ DEFAULT_IGNORE_TERMS}
    ELSE {normalize_text(term) : term \in ignore_terms}

\* the tech domain names of the URL special case
UrlTechTerms == {".net", "asp", "flask", "django", "rails"}

\* should_ignore comparing the lower-case text and words only, without the
\* normal forms of lines 80 and 89
should_ignore_exact(entity_text, ignore_terms, entity_type) ==
    LET entity_lower == StrLower(entity_text)
        words        == Split(entity_lower)
    IN  \/ entity_lower \in ignore_terms
        \/ \E k \in DOMAIN words : words[k] \in ignore_terms
        \/ /\ entity_type = "URL"
           /\ \E tech_term \in UrlTechTerms : Contains(entity_lower, tech_term)

\* entity_type "None" stands for Python's None (the default argument)
should_ignore(entity_text, ignore_terms, entity_type) ==
    LET entity_lower      == StrLower(entity_text)
        normalized_entity == normalize_text(entity_text)
        normalized_terms  == NormalizedTerms(ignore_terms)
        words             == Split(entity_lower)
    IN  \/ entity_lower \in ignore_terms
        \/ normalized_entity \in normalized_terms
        \/ \E k \in DOMAIN words :
              \/ words[k] \in ignore_terms
              \/ normalize_text(words[k]) \in normalized_terms
        \/ /\ entity_type = "URL"
           /\ \E tech_term \in UrlTechTerms : Contains(entity_lower, tech_term)

(***************************************************************************)
(* difflib.SequenceMatcher(None, a, b).ratio(), for len(b) < 200 (below    *)
(* the size at which difflib's autojunk heuristic starts to act)           *)
(***************************************************************************)

\* the sequence of the characters of s, as SequenceMatcher indexes it
Chars(s) == [i \in 1..Len(s) |-> SubSeq(s, i, i)]

RECURSIVE CommonLen(_, _, _, _, _, _)
\* the length of the longest common run a[i:i+k] = b[j:j+k], i+k <= ahi, j+k <= bhi
CommonLen(a, b, i, j, ahi, bhi) ==
    IF i < ahi /\ j < bhi /\ a[i + 1] = b[j + 1]
    THEN 1 + CommonLen(a, b, i + 1, j + 1, ahi, bhi)
    ELSE 0

\* find_longest_match(alo, ahi, blo, bhi): the longest matching block; of the
\* longest ones, the one starting earliest in a, and of those, earliest in b
find_longest_match(a, b, alo, ahi, blo, bhi) ==
    LET size(i, j) == CommonLen(a, b, i, j, ahi, bhi)
        starts     == (alo..(ahi - 1)) \X (blo..(bhi - 1))
        sizes      == {size(p[1], p[2]) : p \in starts}
        best       == IF starts = {} THEN 0
                      ELSE CHOOSE k \in sizes : \A k2 \in sizes : k2 <= k
        longest    == {p \in starts : size(p[1], p[2]) = best}
    IN  IF best = 0 THEN [i |-> alo, j |-> blo, size |-> 0]
        ELSE LET bi == CHOOSE i \in {p[1] : p \in longest} :
                         \A p \in longest : i <= p[1]
                 bj == CHOOSE j \in {p[2] : p \in {q \in longest : q[1] = bi}} :
                         \A p \in longest : p[1] = bi => j <= p[2]
             IN  [i |-> bi, j |-> bj, size |-> best]

RECURSIVE MatchCount(_, _, _, _, _, _)
\* the sum of the sizes of get_matching_blocks() within a[alo:ahi], b[blo:bhi]
MatchCount(a, b, alo, ahi, blo, bhi) ==
    LET m == find_longest_match(a, b, alo, ahi, blo, bhi)
    IN  IF m.size = 0 THEN 0
        ELSE m.size
             + (IF alo < m.i /\ blo < m.j
                THEN MatchCount(a, b, alo, m.i, blo, m.j) ELSE 0)
             + (IF m.i + m.size < ahi /\ m.j + m.size < bhi
                THEN MatchCount(a, b, m.i + m.size, ahi, m.j + m.size, bhi) ELSE 0)

\* SequenceMatcher(None, a.lower(), b.lower()).ratio() as the exact fraction
\* <<numerator, denominator>> = 2.0 * matches / (len(a) + len(b)), 1.0 for two
\* empty strings
similar(a, b) ==
    LET la == Chars(StrLower(a))
        lb == Chars(StrLower(b))
    IN  IF Len(la) + Len(lb) = 0 THEN <<1, 1>>
        ELSE <<2 * MatchCount(la, lb, 0, Len(la), 0, Len(lb)), Len(la) + Len(lb)>>


(***************************************************************************)
(* The environment: the files, the command lines, the recognizer and the   *)
(* PDF library                                                             *)
(***************************************************************************)

\* the largest number of results analyzer.analyze reports during one call of
\* redact_pdf, all pages together
MaxResults == 2

\* the largest number of consecutive words one reported entity spans
MaxEntityWords == 2

\* the largest number of page-level errors (caught by a page loop's except)
\* raised during one call of redact_pdf
MaxPageFaults == 1

\* the page layout: every character is a box GlyphWidth wide, LineHeight high
GlyphWidth == 6

LineHeight == 10

\* the PDF files, each the text of its pages (fitz.open(path)[page_num].get_text())
Documents ==
    [ cv    |-> <<"Jon Smith", "John Smith">>,
      id    |-> <<"Joan Smyth", "John Smith">>,
      short |-> <<"Jo Smith", "Joe Smith">>,
      a     |-> <<"Ann ann">>,
      b     |-> <<"git">> ]

\* file name -> the document it holds
FileDocument(path) ==
    CASE path = "cv.pdf"    -> Documents.cv
      [] path = "id.pdf"    -> Documents.id
      [] path = "short.pdf" -> Documents.short
      [] path = "in/a.pdf"  -> Documents.a
      [] path = "in/B.PDF"  -> Documents.b
      [] OTHER              -> <<>>

\* os.listdir(input_dir)
ListDir(input_dir) ==
    IF input_dir = "in" THEN <<"a.pdf", "notes.txt", "B.PDF">> ELSE <<>>

\* the command lines: args.ignore is <<>> when --ignore is not given
CommandLines ==
    { [input |-> "cv.pdf", output |-> "out.pdf", batch |-> FALSE,
       ignore |-> <<"Jon, React">>, disable_default_ignores |-> FALSE],
      [input |-> "id.pdf", output |-> "out.pdf", batch |-> FALSE,
       ignore |-> <<"">>, disable_default_ignores |-> FALSE],
      [input |-> "short.pdf", output |-> "out.pdf", batch |-> FALSE,
       ignore |-> <<>>, disable_default_ignores |-> TRUE],
      [input |-> "in", output |-> "out", batch |-> TRUE,
       ignore |-> <<"ASP">>, disable_default_ignores |-> TRUE] }

entities_to_detect == <<"PERSON", "EMAIL_ADDRESS", "PHONE_NUMBER", "URL">>

RECURSIVE WordBoundsFrom(_, _, _)
\* the <<start, end>> offsets of the words of s from offset i on; start is the
\* offset at which the word under way began, -1 between words
WordBoundsFrom(s, i, start) ==
    IF i >= Len(s) THEN (IF start < 0 THEN <<>> ELSE << <<start, i>> >>)
    ELSE IF IsSpace(At(s, i))
         THEN (IF start < 0 THEN <<>> ELSE << <<start, i>> >>) \o WordBoundsFrom(s, i + 1, -1)
         ELSE WordBoundsFrom(s, i + 1, IF start < 0 THEN i ELSE start)

WordBounds(s) == WordBoundsFrom(s, 0, -1)

\* the results the recognizer may report on a text: spans of whole words
Candidates(text) ==
    LET wb == WordBounds(text)
    IN  { [start |-> wb[k][1], end |-> wb[k + n - 1][2], entity_type |-> entities_to_detect[t]] :
            <<k, n, t>> \in { q \in (DOMAIN wb) \X (1..MaxEntityWords) \X (DOMAIN entities_to_detect) :
                               q[1] + q[2] - 1 <= Len(wb) } }

\* analyzer.analyze(text=text, entities=entities_to_detect, language="en"):
\* at most limit results, on spans that do not overlap, in reading order
AnalyzerOutcomes(text, limit) ==
    { rs \in UNION { [1..n -> Candidates(text)] : n \in 0..limit } :
         \A i, j \in DOMAIN rs : i < j => rs[i].end <= rs[j].start }

RECURSIVE ReportedSoFar(_)
\* the number of results the analyze events of a history hold
ReportedSoFar(history) ==
    IF history = <<>> THEN 0
    ELSE (IF Head(history).op = "analyze" THEN Len(Head(history).items) ELSE 0)
         + ReportedSoFar(Tail(history))

\* a page as opened: no annotation, nothing blacked out
NewPage(text) == [text |-> text, annots |-> <<>>, redacted |-> {}]

\* fitz.open(pdf_path)
OpenDocument(path) == [p \in DOMAIN FileDocument(path) |-> NewPage(FileDocument(path)[p])]

\* the box of the characters s[i:i+n] on the page
TextRect(i, n) ==
    [x0 |-> GlyphWidth * i, y0 |-> 0, x1 |-> GlyphWidth * (i + n), y1 |-> LineHeight]

RECURSIVE HitsFrom(_, _, _)
HitsFrom(hay, needle, i) ==
    IF i + Len(needle) > Len(hay) THEN <<>>
    ELSE (IF Slice(hay, i, i + Len(needle)) = needle
          THEN <<TextRect(i, Len(needle))>> ELSE <<>>)
         \o HitsFrom(hay, needle, i + 1)

\* page.search_for(needle): the boxes of the occurrences of needle, letter case
\* ignored, in reading order
search_for(page_text, needle) ==
    IF needle = "" THEN <<>> ELSE HitsFrom(StrLower(page_text), StrLower(needle), 0)

find_text_on_page(page_text, text) == search_for(page_text, Strip(text))

\* rect.x0 -= 2; rect.y0 -= 2; rect.x1 += 2; rect.y1 += 2
RectPad == 2

Inflate(rect) ==
    [x0 |-> rect.x0 - RectPad, y0 |-> rect.y0 - RectPad,
     x1 |-> rect.x1 + RectPad, y1 |-> rect.y1 + RectPad]

\* page.add_redact_annot(rect, fill=(0, 0, 0))
RedactAnnot(rect) == [rect |-> rect, fill |-> <<0, 0, 0>>]

Overlaps(r, s) == r.x0 < s.x1 /\ s.x0 < r.x1 /\ r.y0 < s.y1 /\ s.y0 < r.y1

RECURSIVE BlankCovered(_, _, _)
\* the text with every character whose box overlaps a rectangle of rects removed
\* (a blank is left in its place)
BlankCovered(text, rects, i) ==
    IF i >= Len(text) THEN ""
    ELSE (IF \E r \in rects : Overlaps(TextRect(i, 1), r) THEN " " ELSE At(text, i))
         \o BlankCovered(text, rects, i + 1)

\* page.apply_redactions(): the content under every redaction annotation is
\* removed and painted over with the annotation's fill; the annotations are gone
apply_redactions(page) ==
    LET rects == {page.annots[k].rect : k \in DOMAIN page.annots}
    IN  [text     |-> BlankCovered(page.text, rects, 0),
         annots   |-> <<>>,
         redacted |-> page.redacted \cup {page.annots[k] : k \in DOMAIN page.annots}]

(***************************************************************************)
(* The program state                                                       *)
(***************************************************************************)

VARIABLES
    args,           \* main: the parsed command line
    pc,             \* the statement the program is at
    listing,        \* process_directory: os.listdir(input_dir)
    entry,          \* process_directory: the index in listing of the current file name
    count,          \* process_directory: count
    user_terms,     \* the ignore_terms main passes down (parse_ignore_terms' result)
    pdf_path,       \* redact_pdf: its arguments
    output_path,
    ignore_terms,   \* redact_pdf: the effective ignore set
    pdf_document,   \* redact_pdf: the pages of the opened document
    doc_state,      \* "none", "open" or "closed"
    page_num,       \* redact_pdf: the page the current loop is at
    found_persons,  \* redact_pdf: a list
    all_results,    \* redact_pdf: a list of <<page_num, result, entity_text>>
    name_variants,  \* redact_pdf: the keys of the dict, in insertion order
    files,          \* the output files written: path -> content
    page_faults,    \* the page-level errors raised in the current call
    calls,          \* history: the pdf_path of every call of redact_pdf, in order
    events,         \* history: what the current call of redact_pdf has done
    probe           \* a direct call of should_ignore: its arguments and result

vars == <<args, pc, listing, entry, count, user_terms, pdf_path, output_path,
          ignore_terms, pdf_document, doc_state, page_num, found_persons,
          all_results, name_variants, files, page_faults, calls, events, probe>>

frame == <<pdf_path, output_path, ignore_terms, pdf_document, doc_state, page_num,
           found_persons, all_results, name_variants, page_faults, events>>

dirvars == <<listing, entry, count>>

\* one entry of the history of a call
Event(op, page, text, etype, items, page_text) ==
    [op |-> op, page |-> page, text |-> text, etype |-> etype, items |-> items,
     page_text |-> page_text]

NoDocument == <<>>

NoProbe == [state |-> "none", entity_text |-> "", entity_type |-> "", terms |-> {},
            ignored |-> FALSE]

\* nothing has run yet
Idle ==
    /\ pc = "main"
    /\ listing = <<>>
    /\ entry = 0
    /\ count = 0
    /\ user_terms = {}
    /\ pdf_path = ""
    /\ output_path = ""
    /\ ignore_terms = {}
    /\ pdf_document = NoDocument
    /\ doc_state = "none"
    /\ page_num = 0
    /\ found_persons = <<>>
    /\ all_results = <<>>
    /\ name_variants = <<>>
    /\ files = <<>>
    /\ page_faults = 0
    /\ calls = <<>>
    /\ events = <<>>

Init ==
    /\ args \in CommandLines
    /\ Idle
    /\ probe = NoProbe

(***************************************************************************)
(* main and process_directory                                              *)
(***************************************************************************)

\* parse_ignore_terms(ignore_list); ignore_list is <<>> for None
parse_ignore_terms(ignore_list) ==
    IF ignore_list = <<>> \/ ignore_list[1] = "" THEN {}
    ELSE {Strip(term) : term \in Range(SplitOn(ignore_list[1], ","))}

\* the call redact_pdf(path, out, analyzer, terms): the callee's frame is fresh
CallRedactPdf(path, out) ==
    /\ pc' = "redact_pdf"
    /\ pdf_path' = path
    /\ output_path' = out
    /\ calls' = Append(calls, path)
    /\ ignore_terms' = {}
    /\ pdf_document' = NoDocument
    /\ doc_state' = "none"
    /\ page_num' = 0
    /\ found_persons' = <<>>
    /\ all_results' = <<>>
    /\ name_variants' = <<>>
    /\ page_faults' = 0
    /\ events' = <<>>

\* main(): parse the arguments, then process_directory or redact_pdf.
\* args.disable_default_ignores is parsed and never read.
Main ==
    /\ pc = "main"
    /\ user_terms' = parse_ignore_terms(args.ignore)
    /\ IF args.batch
       THEN /\ pc' = "process_directory"
            /\ listing' = ListDir(args.input)
            /\ entry' = 0
            /\ count' = 0
            /\ UNCHANGED <<frame, calls>>
       ELSE /\ CallRedactPdf(args.input, args.output)
            /\ UNCHANGED dirvars
    /\ UNCHANGED <<args, files, probe>>

\* filename.lower().endswith(".pdf")
IsPdfName(filename) ==
    Len(filename) >= 4 /\ StrLower(Slice(filename, Len(filename) - 4, Len(filename))) = ".pdf"

Digits == "0123456789"

RECURSIVE IntToStr(_)
\* str(n), n >= 0
IntToStr(n) == IF n < 10 THEN At(Digits, n) ELSE IntToStr(n \div 10) \o At(Digits, n % 10)

\* one iteration of process_directory's loop over os.listdir(input_dir)
ProcessDirectoryStep ==
    /\ pc = "process_directory"
    /\ entry < Len(listing)
    /\ count' = count + 1
    /\ LET filename == listing[entry + 1]
       IN  IF IsPdfName(filename)
           THEN /\ CallRedactPdf(args.input \o "/" \o filename,
                                 args.output \o "/" \o IntToStr(count + 1) \o ".pdf")
                /\ UNCHANGED entry
           ELSE /\ entry' = entry + 1
                /\ UNCHANGED <<pc, frame, calls>>
    /\ UNCHANGED <<args, listing, user_terms, files, probe>>

\* process_directory's loop is over: main returns
ProcessDirectoryDone ==
    /\ pc = "process_directory"
    /\ entry >= Len(listing)
    /\ pc' = "exit"
    /\ UNCHANGED <<args, dirvars, user_terms, frame, files, calls, probe>>

(***************************************************************************)
(* redact_pdf                                                              *)
(***************************************************************************)

\* where the body goes after fitz.open: the first loop, or past the loops
AfterOpen(n) == IF n > 0 THEN <<"analyze", 0>> ELSE <<"save", 0>>

\* the first pass handing each page to the second pass at once
AfterAnalyze_interleaved(p, n) == <<"variants", p>>

\* where the first pass goes after page p of n
AfterAnalyze(p, n) == IF p + 1 < n THEN <<"analyze", p + 1>> ELSE <<"variants", 0>>

\* where the second pass goes after page p of n
AfterVariants(p, n) == IF p + 1 < n THEN <<"variants", p + 1>> ELSE <<"annotate", 0>>

\* where the redaction loop goes after page p of n
AfterRedact(p, n) == IF p + 1 < n THEN <<"annotate", p + 1>> ELSE <<"save", 0>>

\* {term.lower() for term in ignore_terms}.union(DEFAULT_IGNORE_TERMS)
EffectiveIgnoreTerms(terms) == {StrLower(term) : term \in terms} \cup DEFAULT_IGNORE_TERMS

\* shutil.copy2(pdf_path, output_path)
CopyOf(path) == [kind |-> "copy", source |-> path, pages |-> <<>>]

\* pdf_document.save(output_path)
SavedAs(doc) == [kind |-> "saved", source |-> "", pages |-> doc]

WriteFile(path, content) ==
    [q \in (DOMAIN files) \cup {path} |-> IF q = path THEN content ELSE files[q]]

\* lines 105-121, fitz.open succeeds
OpenOk ==
    /\ pc = "redact_pdf"
    /\ ignore_terms' = EffectiveIgnoreTerms(user_terms)
    /\ pdf_document' = OpenDocument(pdf_path)
    /\ doc_state' = "open"
    /\ pc' = AfterOpen(Len(OpenDocument(pdf_path)))[1]
    /\ page_num' = AfterOpen(Len(OpenDocument(pdf_path)))[2]
    /\ events' = Append(events, Event("open", 0, pdf_path, "", <<>>, ""))
    /\ UNCHANGED <<args, dirvars, user_terms, pdf_path, output_path, found_persons,
                   all_results, name_variants, files, page_faults, calls, probe>>

\* lines 105-121, fitz.open raises: the original is copied and redact_pdf
\* returns; a copy that raises too reaches the outer except of line 242
OpenFails ==
    /\ pc = "redact_pdf"
    /\ ignore_terms' = EffectiveIgnoreTerms(user_terms)
    /\ \E copied \in BOOLEAN :
          IF copied
          THEN /\ files' = WriteFile(output_path, CopyOf(pdf_path))
               /\ pc' = "return"
               /\ events' = events \o <<Event("open_error", 0, pdf_path, "", <<>>, ""),
                                        Event("copy", 0, output_path, "", <<>>, "")>>
          ELSE /\ files' = files
               /\ pc' = "except"
               /\ events' = events \o <<Event("open_error", 0, pdf_path, "", <<>>, ""),
                                        Event("copy_error", 0, output_path, "", <<>>, "")>>
    /\ UNCHANGED <<args, dirvars, user_terms, pdf_path, output_path, pdf_document,
                   doc_state, page_num, found_persons, all_results, name_variants,
                   page_faults, calls, probe>>

\* the results of a page without the should_ignore filter of lines 149-150
KeptResults_unfiltered(p, text, results, terms) ==
    [k \in DOMAIN results |->
        <<p, results[k], Slice(text, results[k].start, results[k].end)>>]

\* the results of a page that pass should_ignore, as all_results entries
KeptResults(p, text, results, terms) ==
    SelectSeq([k \in DOMAIN results |->
                 <<p, results[k], Slice(text, results[k].start, results[k].end)>>],
              LAMBDA r : ~should_ignore(r[3], terms, r[2].entity_type))

\* the kept PERSON texts among all_results entries
KeptPersons(kept) ==
    LET persons == SelectSeq(kept, LAMBDA r : r[2].entity_type = "PERSON")
    IN  [k \in DOMAIN persons |-> persons[k][3]]

\* first pass, one page (lines 136-159)
AnalyzePage ==
    /\ pc = "analyze"
    /\ LET text == pdf_document[page_num + 1].text
           nxt  == AfterAnalyze(page_num, Len(pdf_document))
       IN  /\ pc' = nxt[1]
           /\ page_num' = nxt[2]
           /\ \/ \E analyzer_results \in
                       AnalyzerOutcomes(text, MaxResults - ReportedSoFar(events)) :
                    LET kept == KeptResults(page_num, text, analyzer_results, ignore_terms)
                    IN  /\ all_results' = all_results \o kept
                        /\ found_persons' = found_persons \o KeptPersons(kept)
                        /\ events' = Append(events,
                               Event("analyze", page_num, "", "", analyzer_results, text))
                        /\ UNCHANGED page_faults
              \/ /\ page_faults < MaxPageFaults
                 /\ page_faults' = page_faults + 1
                 /\ events' = Append(events, Event("analyze_error", page_num, "", "", <<>>, ""))
                 /\ UNCHANGED <<all_results, found_persons>>
    /\ UNCHANGED <<args, dirvars, user_terms, pdf_path, output_path, ignore_terms,
                   pdf_document, doc_state, name_variants, files, calls, probe>>

\* the shortest potential name and person the second pass considers
MinNameLen == 8

\* range(2, 5): the word counts of a potential name
NameLengths == 2..4

\* similarity >= 0.8 and similarity < 1.0
VerySimilar_inclusive(ratio) == 10 * ratio[1] >= 8 * ratio[2] /\ ratio[1] < ratio[2]

\* similarity > 0.8 and similarity < 1.0, on the exact fraction
VerySimilar(ratio) == 10 * ratio[1] > 8 * ratio[2] /\ ratio[1] < ratio[2]

\* lines 180-187: is potential_name a variant of some found person?
IsVariant(potential_name, persons) ==
    \E k \in DOMAIN persons :
       /\ Len(persons[k]) >= MinNameLen
       /\ VerySimilar(similar(potential_name, persons[k]))
       /\ StrLower(potential_name) # StrLower(persons[k])

\* lines 170-178: the potential names of a text, in the order the loops make them
PotentialNames(text) ==
    LET words == Split(text)
        at(i, name_length) == JoinSpace(SubSeq(words, i + 1, i + name_length))
        RECURSIVE From(_, _)
        From(i, name_length) ==
            IF i >= Len(words) THEN <<>>
            ELSE IF name_length \notin NameLengths THEN From(i + 1, 2)
            ELSE (IF i + name_length <= Len(words) /\ Len(at(i, name_length)) >= MinNameLen
                  THEN <<at(i, name_length)>> ELSE <<>>)
                 \o From(i, name_length + 1)
    IN  From(0, 2)

RECURSIVE AddKeys(_, _)
\* name_variants[k] = True for every k of keys, in order
AddKeys(dict, keys) ==
    IF keys = <<>> THEN dict
    ELSE AddKeys(IF Head(keys) \in Range(dict) THEN dict ELSE Append(dict, Head(keys)),
                 Tail(keys))

\* lines 165-187 for one page
PageVariants(text, persons) ==
    SelectSeq(PotentialNames(text), LAMBDA potential_name : IsVariant(potential_name, persons))

\* second pass, one page (lines 163-190)
FindVariants ==
    /\ pc = "variants"
    /\ LET text == pdf_document[page_num + 1].text
           nxt  == AfterVariants(page_num, Len(pdf_document))
       IN  /\ pc' = nxt[1]
           /\ page_num' = nxt[2]
           /\ \/ /\ name_variants' = AddKeys(name_variants, PageVariants(text, found_persons))
                 /\ events' = Append(events,
                        Event("variants", page_num, "", "", found_persons, text))
                 /\ UNCHANGED page_faults
              \/ /\ page_faults < MaxPageFaults
                 /\ page_faults' = page_faults + 1
                 /\ events' = Append(events, Event("variants_error", page_num, "", "", <<>>, ""))
                 /\ UNCHANGED name_variants
    /\ UNCHANGED <<args, dirvars, user_terms, pdf_path, output_path, ignore_terms,
                   pdf_document, doc_state, found_persons, all_results, files, calls, probe>>

\* the redaction loop taking the results of the page after p
SearchItems_next_page(p, results, variants) ==
    LET mine == SelectSeq(results, LAMBDA r : r[1] = p + 1)
    IN  [k \in DOMAIN mine |-> [text |-> mine[k][3], etype |-> mine[k][2].entity_type]]
        \o [k \in DOMAIN variants |-> [text |-> variants[k], etype |-> "None"]]

\* what the redaction loop looks for on page p: the kept results of the page,
\* then every name variant (lines 198-199, 214)
SearchItems(p, results, variants) ==
    LET mine == SelectSeq(results, LAMBDA r : r[1] = p)
    IN  [k \in DOMAIN mine |-> [text |-> mine[k][3], etype |-> mine[k][2].entity_type]]
        \o [k \in DOMAIN variants |-> [text |-> variants[k], etype |-> "None"]]

\* the annotations lines 206-211 (216-222) add for the rectangles of one search
AnnotsFor(rects) == [k \in DOMAIN rects |-> RedactAnnot(Inflate(rects[k]))]

RECURSIVE AnnotateItems(_, _, _, _)
\* the page's annotations and the history after the searches of items[m..upto]
\* have run and their annotations were added; acc is <<annots, events>>
AnnotateItems(p, text, items, acc) ==
    IF items = <<>> THEN acc
    ELSE LET rects == find_text_on_page(text, Head(items).text)
         IN  AnnotateItems(p, text, Tail(items),
                 << acc[1] \o AnnotsFor(rects),
                    Append(acc[2], Event("search", p, Head(items).text, Head(items).etype,
                                         rects, text)) >>)

\* the places at which lines 195-222 can raise on a page: <<0, 0>> is the page
\* load; <<m, 0>> the search of item m; <<m, r>> adding the annotation of the
\* r-th rectangle of item m
FaultPoints(text, items) ==
    {<<0, 0>>} \cup
    { <<m, r>> \in (DOMAIN items) \X (0..Len(text)) :
        r <= Len(find_text_on_page(text, items[m].text)) }

\* <<annots, events>> when lines 195-222 raise at fault point f
AnnotateUntil(p, text, items, acc, f) ==
    IF f[1] = 0 THEN acc
    ELSE LET done  == AnnotateItems(p, text, SubSeq(items, 1, f[1] - 1), acc)
             item  == items[f[1]]
             rects == find_text_on_page(text, item.text)
         IN  IF f[2] = 0 THEN done
             ELSE << done[1] \o AnnotsFor(SubSeq(rects, 1, f[2] - 1)),
                     Append(done[2], Event("search", p, item.text, item.etype, rects, text)) >>

\* the redaction loop on one page up to its apply_redactions (lines 193-222)
AnnotatePage ==
    /\ pc = "annotate"
    /\ LET page  == pdf_document[page_num + 1]
           items == SearchItems(page_num, all_results, name_variants)
           start == <<page.annots, events>>
       IN  \/ LET got == AnnotateItems(page_num, page.text, items, start)
              IN  /\ pdf_document' = [pdf_document EXCEPT ![page_num + 1].annots = got[1]]
                  /\ events' = got[2]
                  /\ pc' = "apply"
                  /\ UNCHANGED <<page_num, page_faults>>
           \/ /\ page_faults < MaxPageFaults
              /\ page_faults' = page_faults + 1
              /\ \E f \in FaultPoints(page.text, items) :
                    LET got == AnnotateUntil(page_num, page.text, items, start, f)
                    IN  /\ pdf_document' = [pdf_document EXCEPT ![page_num + 1].annots = got[1]]
                        /\ events' = Append(got[2],
                               Event("redact_error", page_num, "", "", <<>>, ""))
              /\ pc' = AfterRedact(page_num, Len(pdf_document))[1]
              /\ page_num' = AfterRedact(page_num, Len(pdf_document))[2]
    /\ UNCHANGED <<args, dirvars, user_terms, pdf_path, output_path, ignore_terms,
                   doc_state, found_persons, all_results, name_variants, files, calls, probe>>

\* page.apply_redactions() and the end of the loop body (lines 224-228)
ApplyPage ==
    /\ pc = "apply"
    /\ pc' = AfterRedact(page_num, Len(pdf_document))[1]
    /\ page_num' = AfterRedact(page_num, Len(pdf_document))[2]
    /\ \/ /\ pdf_document' = [pdf_document EXCEPT
                                 ![page_num + 1] = apply_redactions(pdf_document[page_num + 1])]
          /\ events' = Append(events, Event("apply", page_num, "", "", <<>>, ""))
          /\ UNCHANGED page_faults
       \/ /\ page_faults < MaxPageFaults
          /\ page_faults' = page_faults + 1
          /\ events' = Append(events, Event("redact_error", page_num, "", "", <<>>, ""))
          /\ UNCHANGED pdf_document
    /\ UNCHANGED <<args, dirvars, user_terms, pdf_path, output_path, ignore_terms,
                   doc_state, found_persons, all_results, name_variants, files, calls, probe>>

\* the save step without the copy of the original when save raises
SaveOutcome_no_fallback(doc, path, saved, copied) ==
    IF saved THEN [written |-> <<SavedAs(doc)>>, pc |-> "return",
                   ops |-> <<"save", "close">>]
    ELSE [written |-> <<>>, pc |-> "return", ops |-> <<"save_error", "close">>]

\* lines 230-239: the file written, if any, and where control goes, when
\* save succeeds (saved), or raises and the copy of the original succeeds
\* (copied) or raises too
SaveOutcome(doc, path, saved, copied) ==
    IF saved THEN [written |-> <<SavedAs(doc)>>, pc |-> "return",
                   ops |-> <<"save", "close">>]
    ELSE IF copied THEN [written |-> <<CopyOf(path)>>, pc |-> "return",
                         ops |-> <<"save_error", "copy", "close">>]
    ELSE [written |-> <<>>, pc |-> "except",
          ops |-> <<"save_error", "copy_error", "close">>]

\* lines 230-239: save; when save raises, copy the original; close in any case
\* (finally).  A copy that raises leaves the try to the outer except.
SaveDocument ==
    /\ pc = "save"
    /\ doc_state' = "closed"
    /\ \E saved \in BOOLEAN, copied \in BOOLEAN :
          LET out == SaveOutcome(pdf_document, pdf_path, saved, copied)
          IN  /\ saved => copied
              /\ files' = IF out.written = <<>> THEN files
                          ELSE WriteFile(output_path, out.written[1])
              /\ events' = events \o [k \in DOMAIN out.ops |->
                                         Event(out.ops[k], 0, output_path, "", <<>>, "")]
              /\ pc' = out.pc
    /\ UNCHANGED <<args, dirvars, user_terms, pdf_path, output_path, ignore_terms,
                   pdf_document, page_num, found_persons, all_results, name_variants,
                   page_faults, calls, probe>>

\* the callee's frame is gone
DropFrame ==
    /\ pdf_path' = ""
    /\ output_path' = ""
    /\ ignore_terms' = {}
    /\ pdf_document' = NoDocument
    /\ doc_state' = "none"
    /\ page_num' = 0
    /\ found_persons' = <<>>
    /\ all_results' = <<>>
    /\ name_variants' = <<>>
    /\ page_faults' = 0
    /\ events' = <<>>

\* redact_pdf returns to its caller: process_directory's loop, or main's end
Return ==
    /\ pc = "return"
    /\ DropFrame
    /\ IF args.batch
       THEN pc' = "process_directory" /\ entry' = entry + 1
       ELSE pc' = "exit" /\ entry' = entry
    /\ UNCHANGED <<args, listing, count, user_terms, files, calls, probe>>

\* is the name traceback bound in redact.py? (its imports, lines 1-8)
TracebackImported == FALSE

\* where the outer handler (lines 242-244) ends: print, then
\* traceback.print_exc(), which raises NameError when traceback is not bound
AfterOuterExcept == IF TracebackImported THEN "return" ELSE "raise"

\* the outer except of redact_pdf
OuterExcept ==
    /\ pc = "except"
    /\ pc' = AfterOuterExcept
    /\ events' = Append(events, Event("outer_except", 0, "", "", <<>>, ""))
    /\ UNCHANGED <<args, dirvars, user_terms, pdf_path, output_path, ignore_terms,
                   pdf_document, doc_state, page_num, found_persons, all_results,
                   name_variants, files, page_faults, calls, probe>>

\* an exception leaves redact_pdf: neither process_directory nor main catches
\* it, the program ends with the traceback
Propagate ==
    /\ pc = "raise"
    /\ pc' = "crashed"
    /\ DropFrame
    /\ UNCHANGED <<args, dirvars, user_terms, files, calls, probe>>

Next ==
    \/ Main
    \/ ProcessDirectoryStep
    \/ ProcessDirectoryDone
    \/ OpenOk
    \/ OpenFails
    \/ AnalyzePage
    \/ FindVariants
    \/ AnnotatePage
    \/ ApplyPage
    \/ SaveDocument
    \/ Return
    \/ OuterExcept
    \/ Propagate

Spec == Init /\ [][Next]_vars

(***************************************************************************)
(* should_ignore on its own: the entity texts, entity types and            *)
(* user-supplied terms it is called with                                   *)
(***************************************************************************)

ProbeTexts ==
    { "ascii", "ASCII", "Asp.Net", "asp net", "A-S-P", "utf8", "UTF 8", "u.t.f.-8",
      "iso88591", "Ruby-On-Rails", "rubyonrails", "docker compose", "Docker.Compose",
      "John Smith", "John ascii", "my utf8 file", "Joan Smyth", "SMYTH", "node js",
      "Node.JS", "javac", "my.net", "www.flask.io", "" }

ProbeUserTerms == { {}, {"Smyth", "Node.JS"}, {"John Smith"} }

ProbeTypes == Range(entities_to_detect) \cup {"None"}

IgnoreInit ==
    /\ args = [input |-> "", output |-> "", batch |-> FALSE, ignore |-> <<>>,
               disable_default_ignores |-> FALSE]
    /\ Idle
    /\ probe \in [state : {"args"}, entity_text : ProbeTexts, entity_type : ProbeTypes,
                  terms : ProbeUserTerms, ignored : {FALSE}]

\* should_ignore(entity_text, ignore_terms, entity_type) under the effective
\* ignore set redact_pdf builds from the user-supplied terms (line 111)
ShouldIgnoreCall ==
    /\ probe.state = "args"
    /\ probe' = [probe EXCEPT
                   !.state = "done",
                   !.ignored = should_ignore(probe.entity_text,
                                             EffectiveIgnoreTerms(probe.terms),
                                             probe.entity_type)]
    /\ UNCHANGED <<args, pc, dirvars, user_terms, frame, files, calls>>

IgnoreNext == ShouldIgnoreCall

IgnoreSpec == IgnoreInit /\ [][IgnoreNext]_vars

(***************************************************************************)
(* Reading the history of a call                                           *)
(***************************************************************************)

\* the text of page p of the file as it is on disk
OriginalText(p) == FileDocument(pdf_path)[p + 1]

ErrorOps == {"open_error", "analyze_error", "variants_error", "redact_error",
             "save_error", "copy_error", "outer_except"}

HasOp(op) == \E k \in DOMAIN events : events[k].op = op

NoError == \A k \in DOMAIN events : events[k].op \notin ErrorOps

\* the text of a result reported by the analyze event e
ResultText(e, r) == Slice(e.page_text, r.start, r.end)

\* the pass an event belongs to, 0 for the events outside the page loops
PassOf(e) ==
    CASE e.op \in {"analyze", "analyze_error"}      -> 1
      [] e.op \in {"variants", "variants_error"}    -> 2
      [] e.op \in {"search", "apply", "redact_error"} -> 3
      [] OTHER -> 0

Covers(outer, inner) ==
    /\ outer.x0 <= inner.x0 /\ outer.y0 <= inner.y0
    /\ outer.x1 >= inner.x1 /\ outer.y1 >= inner.y1

\* is similarity ratio (a fraction) strictly between 0.8 and 1.0?
InOpenInterval(ratio) == 5 * ratio[1] > 4 * ratio[2] /\ ratio[1] < ratio[2]

(***************************************************************************)
(* The claims                                                              *)
(***************************************************************************)

\* C1: when redact_pdf returns after a run in which nothing raised, the output
\* is the saved document, and for every result the recognizer reported on a
\* page p that should_ignore does not reject, every rectangle the text search
\* finds for its text on page p lies under a black redaction that has been
\* applied to page p of the saved document; no annotation is left pending.
C1_KeptResultsAreBlackedOut ==
    (pc = "return" /\ NoError) =>
        /\ output_path \in DOMAIN files
        /\ files[output_path].kind = "saved"
        /\ \A k \in DOMAIN events :
              events[k].op = "analyze" =>
                 \A i \in DOMAIN events[k].items :
                    LET r == events[k].items[i]
                        p == events[k].page
                        t == ResultText(events[k], r)
                        page == files[output_path].pages[p + 1]
                    IN  ~should_ignore(t, ignore_terms, r.entity_type) =>
                           /\ page.annots = <<>>
                           /\ \A rect \in Range(find_text_on_page(OriginalText(p), t)) :
                                 \E a \in page.redacted :
                                    a.fill = <<0, 0, 0>> /\ Covers(a.rect, rect)

\* C1 witness: an error-free call has returned and a kept result's text was
\* found at two places of its page
C1_Witness ==
    /\ pc = "return" /\ NoError
    /\ \E k \in DOMAIN events :
          /\ events[k].op = "analyze"
          /\ \E i \in DOMAIN events[k].items :
                LET r == events[k].items[i]
                    t == ResultText(events[k], r)
                IN  /\ ~should_ignore(t, ignore_terms, r.entity_type)
                    /\ Len(find_text_on_page(OriginalText(events[k].page), t)) >= 2

\* C2: a result should_ignore rejects is never in all_results; when it is a
\* PERSON its text is never in found_persons, nor among the names a variant
\* search was run with.
C2_IgnoredResultsAreDropped ==
    \A k \in DOMAIN events :
       events[k].op = "analyze" =>
          \A i \in DOMAIN events[k].items :
             LET r == events[k].items[i]
                 t == ResultText(events[k], r)
             IN  should_ignore(t, ignore_terms, r.entity_type) =>
                    /\ \A j \in DOMAIN all_results :
                          ~(all_results[j][3] = t
                            /\ all_results[j][2].entity_type = r.entity_type)
                    /\ r.entity_type = "PERSON" =>
                          /\ t \notin Range(found_persons)
                          /\ \A j \in DOMAIN events :
                                events[j].op = "variants" => t \notin Range(events[j].items)

\* C2 witness: a PERSON long enough to seed the variant search was rejected,
\* and the call ran to its end
C2_Witness ==
    /\ pc = "return"
    /\ HasOp("variants")
    /\ \E k \in DOMAIN events :
          /\ events[k].op = "analyze"
          /\ \E i \in DOMAIN events[k].items :
                LET r == events[k].items[i]
                    t == ResultText(events[k], r)
                IN  /\ r.entity_type = "PERSON"
                    /\ Len(t) >= MinNameLen
                    /\ should_ignore(t, ignore_terms, r.entity_type)

\* C3: with --disable-default-ignores, a reported entity that no user-supplied
\* term rejects (should_ignore under the user's terms alone is False) is kept
\* in all_results.
C3_DisableDefaultIgnores ==
    args.disable_default_ignores =>
       \A k \in DOMAIN events :
          events[k].op = "analyze" =>
             \A i \in DOMAIN events[k].items :
                LET r == events[k].items[i]
                    t == ResultText(events[k], r)
                IN  ~should_ignore(t, {StrLower(term) : term \in user_terms}, r.entity_type) =>
                       \E j \in DOMAIN all_results :
                          all_results[j] = <<events[k].page, r, t>>

\* C4: whenever the entity text, or one of its whitespace-separated words, has
\* the same normal form as a term of the effective ignore set, should_ignore
\* returns True, whatever the entity type.
C4_NormalizedMatchIsIgnored ==
    probe.state = "done" =>
       \A term \in EffectiveIgnoreTerms(probe.terms) :
          (\/ normalize_text(probe.entity_text) = normalize_text(term)
           \/ \E word \in Range(Split(probe.entity_text)) :
                 normalize_text(word) = normalize_text(term))
          => probe.ignored

\* C4 witness: a text is ignored although neither it nor any of its words is,
\* in lower case, a term of the set: only the normal forms match (the term is
\* written in upper case, or differs by periods, hyphens or spaces)
C4_Witness ==
    /\ probe.state = "done"
    /\ probe.ignored
    /\ probe.entity_type # "URL"
    /\ LET terms == EffectiveIgnoreTerms(probe.terms)
           lower == StrLower(probe.entity_text)
       IN  /\ lower \notin terms
           /\ \A word \in Range(Split(lower)) : word \notin terms
           /\ \E term \in terms :
                 /\ term # StrLower(term)
                 /\ normalize_text(probe.entity_text) = normalize_text(term)

\* C5: a saved output never holds a redaction annotation that was added and
\* not applied.
C5_SavedOutputHasNoPendingAnnot ==
    \A path \in DOMAIN files :
       files[path].kind = "saved" =>
          \A p \in DOMAIN files[path].pages : files[path].pages[p].annots = <<>>

\* the calls process_directory is to make: one for every entry named *.pdf
ExpectedCalls ==
    LET pdfs == SelectSeq(listing, IsPdfName)
    IN  [k \in DOMAIN pdfs |-> args.input \o "/" \o pdfs[k]]

\* C6: when a batch run is over, no exception has left redact_pdf and
\* redact_pdf was called exactly once for every entry named *.pdf.
C6_EveryPdfIsProcessed ==
    (args.batch /\ pc \in {"exit", "crashed"}) =>
        /\ pc = "exit"
        /\ calls = ExpectedCalls

\* C7: the page-level steps of a call are ordered by pass; a pass starts only
\* after the pass before it went over all pages; every variant search runs
\* with the kept PERSON texts of every page; every text the passes read or
\* search is the page's original text.
C7_PassesAreOrdered ==
    LET n == Len(FileDocument(pdf_path))
    IN  /\ \A i, j \in DOMAIN events :
              (i < j /\ PassOf(events[i]) # 0 /\ PassOf(events[j]) # 0)
                 => PassOf(events[i]) <= PassOf(events[j])
        /\ \A j \in DOMAIN events :
              PassOf(events[j]) \in {2, 3} =>
                 \A p \in 0..(n - 1) :
                    \E i \in 1..(j - 1) :
                       PassOf(events[i]) = PassOf(events[j]) - 1 /\ events[i].page = p
        /\ \A i \in DOMAIN events :
              (events[i].op = "analyze" /\ HasOp("variants")) =>
                 \A q \in DOMAIN events[i].items :
                    LET r == events[i].items[q]
                        t == ResultText(events[i], r)
                    IN  (r.entity_type = "PERSON"
                         /\ ~should_ignore(t, ignore_terms, r.entity_type))
                        => \A j \in DOMAIN events :
                              events[j].op = "variants" => t \in Range(events[j].items)
        /\ \A j \in DOMAIN events :
              events[j].op \in {"analyze", "variants", "search"} =>
                 events[j].page_text = OriginalText(events[j].page)

\* C7 witness: the variant search of page 0 ran with a PERSON kept from page 1,
\* and page 1 was searched after page 0 had its redactions applied
C7_Witness ==
    /\ pc = "return"
    /\ \E j, i \in DOMAIN events :
          /\ events[j].op = "variants" /\ events[j].page = 0
          /\ events[i].op = "analyze" /\ events[i].page = 1
          /\ \E q \in DOMAIN events[i].items :
                /\ events[i].items[q].entity_type = "PERSON"
                /\ ResultText(events[i], events[i].items[q]) \in Range(events[j].items)
    /\ \E j, i \in DOMAIN events :
          /\ i < j
          /\ events[i].op = "apply" /\ events[i].page = 0
          /\ pdf_document[1].text # OriginalText(0)
          /\ events[j].op = "search" /\ events[j].page = 1

\* the texts the second pass read
SecondPassTexts == {events[k].page_text : k \in {q \in DOMAIN events : events[q].op = "variants"}}

\* the runs of 2, 3 or 4 consecutive words of a text, joined by single spaces
WordRuns(text) ==
    LET words == Split(text)
    IN  {JoinSpace(SubSeq(words, q[1], q[1] + q[2] - 1)) :
            q \in {q \in (DOMAIN words) \X {2, 3, 4} : q[1] + q[2] - 1 <= Len(words)}}

\* the strings C8 says are recorded
ClaimedVariants ==
    {s \in UNION {WordRuns(text) : text \in SecondPassTexts} :
        /\ Len(s) >= 8
        /\ \E person \in Range(found_persons) :
              Len(person) >= 8 /\ InOpenInterval(similar(s, person))}

SecondPassOver == pc \in {"annotate", "apply", "save", "return"}

C9_OutputIsSavedOrCopied ==
    /\ pc = "return" =>
          /\ output_path \in DOMAIN files
          /\ files[output_path] \in {SavedAs(pdf_document), CopyOf(pdf_path)}
          /\ HasOp("open_error") =>
                /\ files[output_path] = CopyOf(pdf_path)
                /\ \A k \in DOMAIN events : PassOf(events[k]) = 0
                /\ ~HasOp("save")
          /\ HasOp("save_error") => files[output_path] = CopyOf(pdf_path)
          /\ (~HasOp("open_error") /\ ~HasOp("save_error")) =>
                files[output_path] = SavedAs(pdf_document)
          /\ HasOp("open") => doc_state = "closed"
    /\ (HasOp("save") \/ HasOp("save_error")) => doc_state = "closed"

\* C9 witness: a call returned after its save failed, a redaction having been
\* applied to the document
C9_Witness ==
    /\ pc = "return"
    /\ HasOp("save_error")
    /\ HasOp("apply")
    /\ \E p \in DOMAIN pdf_document : pdf_document[p].redacted # {}

\* C10: every text searched for in the redaction loop is one should_ignore
\* does not reject, and none of its words is an ignore term.
C10_SearchedTextsAreNotIgnored ==
    \A k \in DOMAIN events :
       events[k].op = "search" =>
          /\ ~should_ignore(events[k].text, ignore_terms, events[k].etype)
          /\ \A word \in Range(Split(StrLower(events[k].text))) : word \notin ignore_terms
=============================================================================
